---- MODULE Spec2Model ----
(***************************************************************************)
(* Batch document printer: the print orchestrator (PrintController), the   *)
(* printer configuration manager (PrinterConfigManager) and the page       *)
(* counting orchestrator (PageCountManager), each as a state machine.      *)
(*                                                                         *)
(*   Spec       PrintController: the thread that calls its public methods  *)
(*              and the worker threads of its ThreadPoolExecutor.          *)
(*   SpecConfig PrinterConfigManager against one system printer.           *)
(*   SpecCount  PageCountManager.calculate_all_pages on a background       *)
(*              thread and the dialog thread that may cancel it.           *)
(***************************************************************************)
EXTENDS Integers, Sequences, FiniteSets, TLC

\* ------------------------------------------------------------------ bounds
NumDocs == 2
NumCountDocs == 3
MaxCalls == 5
MaxDropped == 2
MaxListed == 2
MaxSheets == 2

\* ------------------------------------------------------- program constants
MaxWorkers == 2

Docs == 1..NumDocs
Workers == 1..MaxWorkers

\* PrintStatus (models.py)
PENDING == "pending"
PRINTING == "printing"
COMPLETED == "completed"
ERROR == "error"
PrintStatus == {PENDING, PRINTING, COMPLETED, ERROR}

\* FileType (models.py)
WORD == "word"
PPT == "ppt"
EXCEL == "excel"
PDF == "pdf"
IMAGE == "image"
TEXT == "text"
FileType == {WORD, PPT, EXCEL, PDF, IMAGE, TEXT}

\* None for self._current_settings; a PrintSettings s is held as <<s>>
NoSettings == <<>>

VARIABLES
    \* ---- PrintController
    print_queue,        \* self._print_queue: the list object, a sequence of documents
    print_status,       \* document.print_status of every Document object
    current_settings,   \* self._current_settings: None or a PrintSettings
    is_printing,        \* self._is_printing
    pending,            \* work items submitted to self._executor, not yet taken
    wpc,                \* per worker thread: the line of _execute_batch_print it is at
    wloc,               \* per worker thread: the locals of _execute_batch_print
    file_type,          \* document.file_type of every Document object
    file_state,         \* environment: what printing the document's file does
    start_log,          \* observation: the outcome of the last start_batch_print call
    reached,            \* observation: documents that were ever set COMPLETED / ERROR
    calls,              \* observation: the number of calls the caller has made
    \* ---- PrinterConfigManager and the system printer
    devmode,            \* the printer's stored DEVMODE (what GetPrinter level 2 returns)
    original_configs,   \* self._original_configs
    current_printer,    \* self._current_printer
    cfg_log,            \* observation: the calls made since the printer was last clean
    cfg_ret,            \* observation: the last call of the manager and what it returned
    \* ---- PageCountManager and the page count dialog
    cancel_flag,        \* self._cancel_flag
    cpc,                \* the counting thread: the line of calculate_all_pages it is at
    ci,                 \* the counting thread: loop index i
    results,            \* the counting thread: results
    summary,            \* the PageCountSummary returned, or NoSummary
    gpc,                \* the dialog thread: where show_page_count_dialog is
    doc_env,            \* environment: what counting the document's file does
    cancel_log,         \* observation: cancel_calculation calls and later dispatches
    count_log,          \* observation: per result, result.status over time, counter called
    \* ---- HandlerRegistry
    handlers,           \* self._handlers
    file_type_handlers, \* self._file_type_handlers
    extension_handlers, \* self._extension_handlers
    reg_log,            \* observation: the last call and whether it printed a warning
    reg_before,         \* observation: the registry as it was before the last registration
    \* ---- models.py: PrintSettings
    ps_value,           \* a PrintSettings value s
    ps_dict,            \* the dict s.to_dict() gave, as it is stored
    ps_back,            \* PrintSettings.from_dict of the stored dict
    ps_pc,              \* which of the three exist
    \* ---- models.py: Document, and DocumentManager
    dm_documents,       \* DocumentManager._documents
    dm_new,             \* observation: the last Document construction and its outcome
    \* ---- Excel page counting
    xl_book,            \* environment: the workbook Excel is asked to open
    xl_manager,         \* what PageCountManager._calculate_excel_pages did
    xl_handler,         \* what ExcelDocumentHandler.count_pages did
    \* ---- one invocation that starts an office automation host
    host_routine,       \* the method invoked
    host_env,           \* environment: which call into the host raises
    host_pc,            \* where the invocation is
    host_app,           \* the host application was started by the invocation
    host_doc,           \* the document / workbook / presentation: none, open, closed
    host_quit,          \* the host's quit was issued
    \* ---- PowerPoint slide counting
    ppt_ext,            \* file_path.suffix.lower()
    ppt_env,            \* environment: what PowerPoint and python-pptx do with the file
    ppt_pc,             \* where count_pages / _calculate_ppt_pages is
    ppt_calls,          \* observation: the strategies invoked, in order
    ppt_first,          \* what the first strategy did
    ppt_out             \* what the call did

pcVars == <<print_queue, print_status, current_settings, is_printing, pending,
            wpc, wloc, file_type, file_state, start_log, reached, calls>>
cfgVars == <<devmode, original_configs, current_printer, cfg_log, cfg_ret>>
cntVars == <<cancel_flag, cpc, ci, results, summary, gpc, doc_env, cancel_log,
             count_log>>
regVars == <<handlers, file_type_handlers, extension_handlers, reg_log, reg_before>>
setVars == <<ps_value, ps_dict, ps_back, ps_pc>>
docVars == <<dm_documents, dm_new>>
xlVars == <<xl_book, xl_manager, xl_handler>>
hostVars == <<host_routine, host_env, host_pc, host_app, host_doc, host_quit>>
pptVars == <<ppt_ext, ppt_env, ppt_pc, ppt_calls, ppt_first, ppt_out>>
vars == <<pcVars, cfgVars, cntVars, regVars, setVars, docVars, xlVars, hostVars,
          pptVars>>

\* Everything but one component's variables: what the component's actions leave
\* alone.
exceptPrint == <<xlVars, hostVars, pptVars, cfgVars, cntVars, regVars, setVars, docVars>>
exceptConfig == <<xlVars, hostVars, pptVars, pcVars, cntVars, regVars, setVars, docVars>>
exceptCount == <<xlVars, hostVars, pptVars, pcVars, cfgVars, regVars, setVars, docVars>>
exceptRegistry == <<xlVars, hostVars, pptVars, pcVars, cfgVars, cntVars, setVars, docVars>>
exceptSettings == <<xlVars, hostVars, pptVars, pcVars, cfgVars, cntVars, regVars, docVars>>
exceptDocuments == <<xlVars, hostVars, pptVars, pcVars, cfgVars, cntVars, regVars, setVars>>
exceptExcel == <<hostVars, pptVars, pcVars, cfgVars, cntVars, regVars, setVars, docVars>>
exceptHosts == <<xlVars, pptVars, pcVars, cfgVars, cntVars, regVars, setVars, docVars>>
exceptPpt == <<xlVars, hostVars, pcVars, cfgVars, cntVars, regVars, setVars, docVars>>

\* ========================================================== PrintController

\* A PrintSettings value as far as the controller and the printer configuration
\* read it: printer_name, duplex, color_mode, orientation, paper_size.
PrintSettings(dx, cm, o, ps) ==
    [printer_name |-> "P", duplex |-> dx, color_mode |-> cm,
     orientation |-> o, paper_size |-> ps]

\* The settings the caller hands to set_print_settings.
CallerSettings == { PrintSettings(TRUE, "color", "landscape", "A3") }

\* A document's file: its type (from the extension) and what printing it does.
DocKinds ==
    { [type |-> PDF, state |-> "ok"],
      [type |-> WORD, state |-> "engine_fails"],
      [type |-> PPT, state |-> "missing"],
      [type |-> EXCEL, state |-> "ok"] }

\* The lists a caller passes to add_documents_to_queue: documents in any order,
\* none twice.
RECURSIVE SeqsOver(_)
SeqsOver(S) ==
    IF S = {} THEN {<<>>}
    ELSE {<<>>} \cup UNION { { <<d>> \o t : t \in SeqsOver(S \ {d}) } : d \in S }

Range(q) == { q[k] : k \in 1..Len(q) }

\* The locals of one execution of _execute_batch_print. document = 0 before the
\* loop has bound it. Three observations ride along: batch_docs, the queue's
\* documents at line 98, seen, the documents the loop has bound to document,
\* and printed, the documents this execution has called _print_single_document
\* for.
InitLocals ==
    [i |-> 0, document |-> 0, total_docs |-> 0, success_count |-> 0,
     error_count |-> 0, batch_docs |-> {}, seen |-> {}, printed |-> {}]

\* A batch execution is in flight: the executor holds it or a worker runs it.
Running(w) == wpc[w] # "idle"
BatchActive == pending > 0 \/ \E w \in Workers : Running(w)

InitPrint ==
    /\ print_queue = <<>>
    /\ print_status = [d \in Docs |-> PENDING]
    /\ current_settings = NoSettings
    /\ is_printing = FALSE
    /\ pending = 0
    /\ wpc = [w \in Workers |-> "idle"]
    /\ wloc = [w \in Workers |-> InitLocals]
    /\ \E k \in [Docs -> DocKinds] :
         /\ file_type = [d \in Docs |-> k[d].type]
         /\ file_state = [d \in Docs |-> k[d].state]
    /\ start_log = [result |-> "none", active |-> FALSE]
    /\ reached = {}
    /\ calls = 0

RestPrint ==
    /\ print_queue = <<>>
    /\ print_status = [d \in Docs |-> PENDING]
    /\ current_settings = NoSettings
    /\ is_printing = FALSE
    /\ pending = 0
    /\ wpc = [w \in Workers |-> "idle"]
    /\ wloc = [w \in Workers |-> InitLocals]
    /\ file_type = [d \in Docs |-> PDF]
    /\ file_state = [d \in Docs |-> "ok"]
    /\ start_log = [result |-> "none", active |-> FALSE]
    /\ reached = {}
    /\ calls = 0

\* set_print_settings
set_print_settings(s) ==
    /\ calls < MaxCalls
    /\ calls' = calls + 1
    /\ current_settings' = <<s>>
    /\ UNCHANGED <<print_queue, print_status, is_printing, pending, wpc, wloc,
                   file_type, file_state, start_log, reached>>

\* add_documents_to_queue: list.extend
add_documents_to_queue(documents) ==
    /\ calls < MaxCalls
    /\ calls' = calls + 1
    /\ documents # <<>>
    /\ Range(documents) \cap Range(print_queue) = {}
    /\ print_queue' = print_queue \o documents
    /\ UNCHANGED <<print_status, current_settings, is_printing, pending, wpc, wloc,
                   file_type, file_state, start_log, reached>>

\* clear_queue: list.clear on the same list object
clear_queue ==
    /\ calls < MaxCalls
    /\ calls' = calls + 1
    /\ print_queue' = <<>>
    /\ UNCHANGED <<print_status, current_settings, is_printing, pending, wpc, wloc,
                   file_type, file_state, start_log, reached>>

\* start_batch_print: the three checks in the code's order
StartResult ==
    IF is_printing THEN "RuntimeError"
    ELSE IF print_queue = <<>> THEN "ValueError_queue"
    ELSE IF current_settings = NoSettings THEN "ValueError_settings"
    ELSE "submitted"

\* start_batch_print: raise, or self._executor.submit(self._execute_batch_print)
start_batch_print ==
    /\ calls < MaxCalls
    /\ calls' = calls + 1
    /\ start_log' = [result |-> StartResult, active |-> BatchActive]
    /\ pending' = IF StartResult = "submitted" THEN pending + 1 ELSE pending
    /\ UNCHANGED <<print_queue, print_status, current_settings, is_printing, wpc, wloc,
                   file_type, file_state, reached>>

\* ThreadPoolExecutor(max_workers=2): a free worker thread takes the next work
\* item and calls _execute_batch_print.
WorkerTake(w) ==
    /\ wpc[w] = "idle"
    /\ pending > 0
    /\ pending' = pending - 1
    /\ wpc' = [wpc EXCEPT ![w] = "l97"]
    /\ UNCHANGED <<print_queue, print_status, current_settings, is_printing, wloc,
                   file_type, file_state, start_log, reached, calls>>

\* line 97: self._is_printing = True
ExecSetFlag(w) ==
    /\ wpc[w] = "l97"
    /\ is_printing' = TRUE
    /\ wpc' = [wpc EXCEPT ![w] = "l98"]
    /\ UNCHANGED <<print_queue, print_status, current_settings, pending, wloc,
                   file_type, file_state, start_log, reached, calls>>

\* lines 98-100: total_docs = len(self._print_queue); the counters start at 0
ExecReadTotal(w) ==
    /\ wpc[w] = "l98"
    /\ wloc' = [wloc EXCEPT ![w].total_docs = Len(print_queue),
                            ![w].batch_docs = Range(print_queue)]
    /\ wpc' = [wpc EXCEPT ![w] = "l102"]
    /\ UNCHANGED <<print_queue, print_status, current_settings, is_printing, pending,
                   file_type, file_state, start_log, reached, calls>>

\* line 102: next() of the iterator over the live list: index i against the
\* list's length now; at the end of the list the loop is left
ExecNext(w) ==
    /\ wpc[w] = "l102"
    /\ IF wloc[w].i < Len(print_queue)
       THEN /\ wloc' = [wloc EXCEPT ![w].i = @ + 1,
                                    ![w].document = print_queue[wloc[w].i + 1],
                                    ![w].seen = @ \cup {print_queue[wloc[w].i + 1]}]
            /\ wpc' = [wpc EXCEPT ![w] = "l105"]
       ELSE /\ wpc' = [wpc EXCEPT ![w] = "l135"]
            /\ UNCHANGED wloc
    /\ UNCHANGED <<print_queue, print_status, current_settings, is_printing, pending,
                   file_type, file_state, start_log, reached, calls>>

\* lines 105-109 and 129-132: the progress callback (i + 1, total_docs, name)
\* returns, or raises into the loop's except: the document is set ERROR,
\* error_count grows and the loop goes on
ExecProgress(w, raises) ==
    /\ wpc[w] = "l105"
    /\ IF raises
       THEN /\ print_status' = [print_status EXCEPT ![wloc[w].document] = ERROR]
            /\ reached' = reached \cup {wloc[w].document}
            /\ wloc' = [wloc EXCEPT ![w].error_count = @ + 1]
            /\ wpc' = [wpc EXCEPT ![w] = "l102"]
       ELSE /\ wpc' = [wpc EXCEPT ![w] = "l112"]
            /\ UNCHANGED <<print_status, reached, wloc>>
    /\ UNCHANGED <<print_queue, current_settings, is_printing, pending,
                   file_type, file_state, start_log, calls>>

\* line 112: document.print_status = PrintStatus.PRINTING
ExecSetPrinting(w) ==
    /\ wpc[w] = "l112"
    /\ print_status' = [print_status EXCEPT ![wloc[w].document] = PRINTING]
    /\ wpc' = [wpc EXCEPT ![w] = "l115"]
    /\ UNCHANGED <<print_queue, current_settings, is_printing, pending, wloc,
                   file_type, file_state, start_log, reached, calls>>

\* _print_single_document: False for a missing file, for a type other than PDF,
\* WORD and PPT, and when the type's print method fails or raises (every
\* exception is caught and turned into False)
_print_single_document(d) ==
    IF file_state[d] = "missing" THEN FALSE
    ELSE IF file_type[d] \in {PDF, WORD, PPT} THEN file_state[d] = "ok"
    ELSE FALSE

\* lines 115-127: success = self._print_single_document(document); COMPLETED or
\* ERROR from the boolean, the counters, the sleep
ExecPrint(w) ==
    /\ wpc[w] = "l115"
    /\ LET d == wloc[w].document
           success == _print_single_document(d)
       IN /\ print_status' = [print_status EXCEPT
                                ![d] = IF success THEN COMPLETED ELSE ERROR]
          /\ reached' = reached \cup {d}
          /\ wloc' = [wloc EXCEPT
                        ![w].printed = @ \cup {d},
                        ![w].success_count = IF success THEN @ + 1 ELSE @,
                        ![w].error_count = IF success THEN @ ELSE @ + 1]
    /\ wpc' = [wpc EXCEPT ![w] = "l102"]
    /\ UNCHANGED <<print_queue, current_settings, is_printing, pending,
                   file_type, file_state, start_log, calls>>

\* An execution whose end leaves self._is_printing as it is.
ExecFinishKeepsFlag(w) ==
    /\ wpc[w] = "l135"
    /\ wpc' = [wpc EXCEPT ![w] = "idle"]
    /\ wloc' = [wloc EXCEPT ![w] = InitLocals]
    /\ UNCHANGED <<print_queue, print_status, current_settings, is_printing, pending,
                   file_type, file_state, start_log, reached, calls>>

\* lines 135-144: the final progress callback (total_docs, total_docs, counts),
\* outside the loop's try, returns or raises; either way the finally sets
\* self._is_printing = False and the execution ends
ExecFinish(w) ==
    /\ wpc[w] = "l135"
    /\ is_printing' = FALSE
    /\ wpc' = [wpc EXCEPT ![w] = "idle"]
    /\ wloc' = [wloc EXCEPT ![w] = InitLocals]
    /\ UNCHANGED <<print_queue, print_status, current_settings, pending,
                   file_type, file_state, start_log, reached, calls>>

\* get_print_queue_status: the count of the queue's documents per status, the
\* queue's length, the flag
get_print_queue_status ==
    [total |-> Len(print_queue),
     status_count |->
       [st \in PrintStatus |->
          Cardinality({ k \in 1..Len(print_queue) : print_status[print_queue[k]] = st })],
     is_printing |-> is_printing]

\* ==================================================== PrinterConfigManager

Printers == {"P", "Q"}

\* DEVMODE as the manager reads and writes it. Fields is dmFields, the set of
\* DM_* flags that are set.
DM_ALL == {"DM_DUPLEX", "DM_COPIES", "DM_COLOR", "DM_ORIENTATION", "DM_PAPERSIZE"}

DevMode(dx, cp, co, o, ps, f) ==
    [Duplex |-> dx, Copies |-> cp, Color |-> co, Orientation |-> o,
     PaperSize |-> ps, Fields |-> f]

\* The configurations a printer is found in before the program touches it.
InitialDevModes ==
    { DevMode(1, 1, 2, 1, 9, DM_ALL),
      DevMode(3, 2, 1, 2, 1, {"DM_ORIENTATION", "DM_PAPERSIZE"}) }

\* The settings apply_batch_print_settings is called with.
ConfigSettings ==
    { PrintSettings(TRUE, "color", "landscape", "A3"),
      PrintSettings(FALSE, "grayscale", "portrait", "B5") }

\* What the calls into win32print do during one call of the manager.
ApplyEnv == {"ok", "OpenPrinter_raises", "SetPrinter_raises"}
RestoreEnv == {"ok", "OpenPrinter_raises"}

NoPrinter == "None"

\* paper_size_map.get(settings.paper_size, 9)
paper_size_map(name) ==
    CASE name = "A4" -> 9
      [] name = "A3" -> 8
      [] name = "A5" -> 11
      [] name = "Letter" -> 1
      [] name = "Legal" -> 5
      [] name = "Tabloid" -> 3
      [] OTHER -> 9

\* win32print.DocumentProperties(0, h, name, out, in, DM_IN_BUFFER | DM_OUT_BUFFER):
\* merges the members of `dmIn` that its dmFields flag into the driver's current
\* settings and writes the result to the caller's output buffer. It stores
\* nothing in the printer: only SetPrinter does.
DocumentProperties(driver, dmIn) ==
    [Duplex |-> IF "DM_DUPLEX" \in dmIn.Fields THEN dmIn.Duplex ELSE driver.Duplex,
     Copies |-> IF "DM_COPIES" \in dmIn.Fields THEN dmIn.Copies ELSE driver.Copies,
     Color |-> IF "DM_COLOR" \in dmIn.Fields THEN dmIn.Color ELSE driver.Color,
     Orientation |-> IF "DM_ORIENTATION" \in dmIn.Fields
                     THEN dmIn.Orientation ELSE driver.Orientation,
     PaperSize |-> IF "DM_PAPERSIZE" \in dmIn.Fields
                   THEN dmIn.PaperSize ELSE driver.PaperSize,
     Fields |-> driver.Fields \cup dmIn.Fields]

\* backup_printer_config, lines 40-47: the entry stored for the printer
BackupEntry(dm) ==
    [duplex |-> dm.Duplex, copies |-> dm.Copies, color |-> dm.Color,
     orientation |-> dm.Orientation, paper_size |-> dm.PaperSize,
     fields |-> dm.Fields]

\* backup_printer_config: self._original_configs[printer_name] = {...}, whether
\* or not the printer already has an entry
backup_printer_config(configs, p) ==
    [q \in DOMAIN configs \cup {p} |->
        IF q = p THEN BackupEntry(devmode[p]) ELSE configs[q]]

\* apply_batch_print_settings, lines 93-131: the DEVMODE the settings give
SettingsDevMode(dm, s) ==
    [Duplex |-> IF s.duplex THEN 2 ELSE 1,
     Copies |-> 1,
     Color |-> IF s.color_mode = "color" THEN 2 ELSE 1,
     Orientation |-> IF s.orientation = "landscape" THEN 2 ELSE 1,
     PaperSize |-> paper_size_map(s.paper_size),
     Fields |-> dm.Fields \cup DM_ALL]

\* The observation kept per printer: the successful apply calls since the last
\* successful restore (n, at most 2), whether the last successful call was a
\* restore, and the DEVMODE the printer had before the first of those applies.
CleanLog == [n |-> 0, restored |-> FALSE, first |-> <<>>]

\* A call of the manager as observed: the method, the printer it worked on,
\* whether that printer had a backup entry when the call began, the boolean
\* returned.
Returned(op, target, had_backup, result) ==
    [op |-> op, target |-> target, had_backup |-> had_backup, result |-> result]

InitConfig ==
    /\ devmode \in [Printers -> InitialDevModes]
    /\ original_configs = <<>>
    /\ current_printer = NoPrinter
    /\ cfg_log = [p \in Printers |-> CleanLog]
    /\ cfg_ret = Returned("none", NoPrinter, FALSE, TRUE)

\* apply_batch_print_settings(printer_name, settings)
apply_batch_print_settings(p, s, env) ==
    IF env = "OpenPrinter_raises"
    THEN \* backup_printer_config returns False, line 75 returns False
         /\ cfg_ret' = Returned("apply", p, p \in DOMAIN original_configs, FALSE)
         /\ UNCHANGED <<devmode, original_configs, current_printer, cfg_log>>
    ELSE LET local == SettingsDevMode(devmode[p], s)
             out == DocumentProperties(devmode[p], local)
         IN /\ original_configs' = backup_printer_config(original_configs, p)
            /\ devmode' = IF env = "ok"
                          THEN [devmode EXCEPT ![p] = out]   \* SetPrinter, line 144
                          ELSE devmode       \* lines 147-154: DocumentProperties only
            /\ current_printer' = p
            /\ cfg_log' = [cfg_log EXCEPT ![p] =
                             IF cfg_log[p].n = 0 \/ cfg_log[p].restored
                             THEN [n |-> 1, restored |-> FALSE, first |-> <<devmode[p]>>]
                             ELSE [@ EXCEPT !.n = 2]]
            /\ cfg_ret' = Returned("apply", p, p \in DOMAIN original_configs, TRUE)

\* restore_printer_config(printer_name), printer_name None or a name
restore_printer_config(printer_name, env) ==
    LET target_printer == IF printer_name = NoPrinter THEN current_printer
                          ELSE printer_name
        had_backup == target_printer \in DOMAIN original_configs
        same == UNCHANGED <<devmode, original_configs, current_printer, cfg_log>>
    IN IF target_printer = NoPrinter
       THEN \* line 192: return True
            same /\ cfg_ret' = Returned("restore", NoPrinter, FALSE, TRUE)
       ELSE IF ~had_backup
       THEN \* line 196: return False
            same /\ cfg_ret' = Returned("restore", target_printer, FALSE, FALSE)
       ELSE IF env = "OpenPrinter_raises"
       THEN \* line 242: return False
            same /\ cfg_ret' = Returned("restore", target_printer, TRUE, FALSE)
       ELSE \* lines 209-223: the entry is written to the local DEVMODE and handed
            \* to DocumentProperties; lines 228-230 drop the entry
            /\ original_configs' =
                 [q \in DOMAIN original_configs \ {target_printer} |->
                    original_configs[q]]
            /\ current_printer' = IF current_printer = target_printer
                                  THEN NoPrinter ELSE current_printer
            /\ devmode' = devmode
            /\ cfg_log' = [cfg_log EXCEPT ![target_printer].restored = TRUE]
            /\ cfg_ret' = Returned("restore", target_printer, TRUE, TRUE)

RestConfig ==
    /\ devmode \in [Printers -> {DevMode(1, 1, 2, 1, 9, DM_ALL)}]
    /\ original_configs = <<>>
    /\ current_printer = NoPrinter
    /\ cfg_log = [p \in Printers |-> CleanLog]
    /\ cfg_ret = Returned("none", NoPrinter, FALSE, TRUE)

\* ======================================================== PageCountManager

\* PageCountStatus
UNKNOWN == "unknown"
CALCULATING == "calculating"
SUCCESS == "success"
SKIPPED_LARGE == "skipped_large"
SKIPPED_ENCRYPTED == "skipped_encrypted"
SKIPPED_DAMAGED == "skipped_damaged"
SKIPPED_NO_ACCESS == "skipped_no_access"
SKIPPED_NO_OFFICE == "skipped_no_office"
SkippedStatuses ==
    {SKIPPED_LARGE, SKIPPED_ENCRYPTED, SKIPPED_DAMAGED, SKIPPED_NO_ACCESS,
     SKIPPED_NO_OFFICE}

\* The list handed to calculate_all_pages: documents 1..NumCountDocs in order.
CountDocs == 1..NumCountDocs
documents == [k \in CountDocs |-> k]

\* A document's file at counting time: its type, what the file system says of
\* it (ok, missing, large: over max_file_size_mb, unreadable: open() fails) and
\* what the type's engine does with it (a page count, or an exception: the file
\* is damaged, or it is password-protected).
CountKind(t, f, e, n, K) ==
    [type |-> t, file |-> f, engine |-> e, pages |-> n, text |-> K]

\* The words the counters look for in the lower-cased text of an engine's
\* exception; a CountKind's text is the set of them that the text contains.
Keywords == {"password", "protected", "access", "permission", "encrypted", "locked"}

CountKinds ==
    { CountKind(PDF, "ok", "pages", 3, {}),
      CountKind(WORD, "ok", "raises", 0, {}),
      CountKind(PPT, "missing", "pages", 2, {}),
      CountKind(EXCEL, "large", "pages", 5, {}),
      CountKind(IMAGE, "ok", "pages", 1, {}),
      CountKind(PDF, "ok", "pages", 0, {}),
      CountKind(WORD, "ok", "encrypted", 0, {"password"}),
      CountKind(PPT, "ok", "encrypted", 0, {"encrypted"}),
      CountKind(EXCEL, "ok", "timeout", 0, {}),
      CountKind(PDF, "ok", "missing_library", 0, {}),
      CountKind(WORD, "unreadable", "pages", 4, {}),
      CountKind(WORD, "ok", "pages", 2, {}),
      CountKind(EXCEL, "ok", "pages", 5, {}) }

\* The engine outcomes in which the engine itself raises: "raises" for a
\* damaged file, "encrypted" for a password-protected one. The counter also
\* raises when the engine does not return within the bound of @timeout, and
\* when the import of the engine's library fails.
EngineRaises == {"raises", "encrypted"}
CounterRaises == EngineRaises \cup {"timeout", "missing_library"}

\* page_count None is <<>>, a number n is <<n>>; error_message "" is unset
PageCountResult(d, pc, st, msg) ==
    [document |-> d, page_count |-> pc, status |-> st, error_message |-> msg]

NoSummary == <<>>

\* A skip check that looks only at whether the file exists.
_should_skip_document_exists_only(d) ==
    IF doc_env[d].file = "missing" THEN <<TRUE, SKIPPED_NO_ACCESS>>
    ELSE <<FALSE, UNKNOWN>>

\* _should_skip_document: <<should_skip, reason>>
_should_skip_document(d) ==
    IF doc_env[d].file = "missing" THEN <<TRUE, SKIPPED_NO_ACCESS>>
    ELSE IF doc_env[d].file = "large" THEN <<TRUE, SKIPPED_LARGE>>
    ELSE IF doc_env[d].file = "unreadable" THEN <<TRUE, SKIPPED_NO_ACCESS>>
    ELSE <<FALSE, UNKNOWN>>

\* _calculate_pdf_pages, _calculate_word_pages, _calculate_ppt_pages_pptx,
\* _calculate_excel_pages on a file whose engine reports n pages (len(reader.pages),
\* ComputeStatistics, len(prs.slides), the sum over the sheets): <<count>>, or
\* <<>> when the counter raises. The validity test of the first three is n < 0.
_calculate_pages(t, n) ==
    IF t = EXCEL THEN <<IF n > 1 THEN n ELSE 1>>
    ELSE IF n < 0 THEN <<>>
    ELSE <<n>>

\* An exception as the code inspects it: which message it carries, and which
\* of the English keywords its lower-cased text contains. The counters' own
\* messages are Chinese and contain none.
Exc(m, K) == [msg |-> m, kw |-> K]
FileEncrypted == Exc("file_encrypted", {})      \* Exception("文件被加密")
FileDamaged == Exc("file_damaged", {})          \* Exception("文件已损坏")
Unsupported == Exc("unsupported_type", {})      \* ValueError("不支持的文件类型: ...")
TimedOut == Exc("timed_out", {})                \* Exception("文档处理超时（超过30秒）")
NeedsLibrary == Exc("needs_library", {})        \* Exception("需要安装PyPDF2库...")

\* The keywords each counter tests the engine's exception for:
\* _calculate_pdf_pages line 279, _calculate_word_pages lines 353-355,
\* _calculate_ppt_pages_pptx line 466, _calculate_excel_pages lines 687-689
CounterKeywords(t) ==
    IF t = PDF THEN {"encrypted", "password"}
    ELSE IF t = PPT THEN {"password", "protected", "permission", "access"}
    ELSE Keywords

\* The exception the type's counter raises when its engine raised a text
\* containing the keywords K. _calculate_excel_pages raises its own
\* Exception("文件被加密") inside the outer try, whose handler (lines 754-759)
\* finds no English keyword in it and raises Exception("文件已损坏") instead.
CounterError(t, K) ==
    IF t = EXCEL THEN FileDamaged
    ELSE IF K \cap CounterKeywords(t) # {} THEN FileEncrypted
    ELSE FileDamaged

\* _get_user_friendly_error: the message stored in the result
_get_user_friendly_error(e) ==
    IF e.kw \cap {"password", "protected", "encrypted", "access", "permission"} # {}
    THEN "encrypted_or_restricted"      \* "文件被加密或权限受限"
    ELSE "corrupted_or_bad_format"      \* "文件已损坏或格式不正确"

\* _get_skip_message
_get_skip_message(status) ==
    IF status = SKIPPED_LARGE THEN "too_large"
    ELSE IF status = SKIPPED_ENCRYPTED THEN "encrypted_or_password"
    ELSE IF status = SKIPPED_DAMAGED THEN "damaged_or_bad_format"
    ELSE IF status = SKIPPED_NO_ACCESS THEN "no_access"
    ELSE IF status = SKIPPED_NO_OFFICE THEN "office_unavailable"
    ELSE "unknown_reason"

\* _calculate_single_document: the skip check, then the type's counter inside
\* the try; any exception (also the ValueError for a type without a counter)
\* gives ERROR with the message of _get_user_friendly_error
_calculate_single_document(d) ==
    LET e == doc_env[d]
        skip == _should_skip_document(d)
    IN IF skip[1]
       THEN PageCountResult(d, <<>>, skip[2], _get_skip_message(skip[2]))
       ELSE IF e.type \notin {PDF, WORD, PPT, EXCEL}
       THEN PageCountResult(d, <<>>, ERROR, _get_user_friendly_error(Unsupported))
       ELSE IF e.engine = "timeout"
       THEN PageCountResult(d, <<>>, ERROR, _get_user_friendly_error(TimedOut))
       ELSE IF e.engine = "missing_library"
       THEN PageCountResult(d, <<>>, ERROR, _get_user_friendly_error(NeedsLibrary))
       ELSE IF e.engine \in EngineRaises
       THEN PageCountResult(d, <<>>, ERROR,
                            _get_user_friendly_error(CounterError(e.type, e.text)))
       ELSE IF _calculate_pages(e.type, e.pages) = <<>>
       THEN PageCountResult(d, <<>>, ERROR, _get_user_friendly_error(FileDamaged))
       ELSE PageCountResult(d, _calculate_pages(e.type, e.pages), SUCCESS, "")

\* The values result.status holds in turn during _calculate_single_document:
\* UNKNOWN from the constructor (line 167), the skip reason (line 174) or
\* CALCULATING (line 178), then SUCCESS (line 193) or ERROR (line 196)
StatusTrace(d) ==
    IF _should_skip_document(d)[1]
    THEN <<UNKNOWN, _calculate_single_document(d).status>>
    ELSE <<UNKNOWN, CALCULATING, _calculate_single_document(d).status>>

\* lines 181-188: one of the four counters is called for the document
CounterCalled(d) ==
    ~_should_skip_document(d)[1] /\ doc_env[d].type \in {PDF, WORD, PPT, EXCEL}

\* result.page_count or 0
PagesOrZero(r) == IF r.page_count = <<>> THEN 0 ELSE r.page_count[1]

EmptySummary ==
    [total_files |-> 0, total_pages |-> 0, success_count |-> 0, skipped_count |-> 0,
     error_count |-> 0, word_files |-> 0, word_pages |-> 0, ppt_files |-> 0,
     ppt_pages |-> 0, excel_files |-> 0, excel_pages |-> 0, pdf_files |-> 0,
     pdf_pages |-> 0, skipped_files |-> <<>>, error_files |-> <<>>]

\* A loop body that has no branch for the skipped statuses.
SummaryStepNoSkipped(sm, r) ==
    LET n == PagesOrZero(r)
    IN IF r.status = SUCCESS
       THEN [sm EXCEPT !.success_count = @ + 1, !.total_pages = @ + n]
       ELSE [sm EXCEPT !.error_count = @ + 1, !.error_files = Append(@, r)]

\* _generate_summary, lines 779-810: one pass of the loop body over result r
SummaryStep(sm, r) ==
    LET t == doc_env[r.document].type
        n == PagesOrZero(r)
    IN IF r.status = SUCCESS
       THEN [sm EXCEPT !.success_count = @ + 1,
                       !.total_pages = @ + n,
                       !.word_files = IF t = WORD THEN @ + 1 ELSE @,
                       !.word_pages = IF t = WORD THEN @ + n ELSE @,
                       !.ppt_files = IF t = PPT THEN @ + 1 ELSE @,
                       !.ppt_pages = IF t = PPT THEN @ + n ELSE @,
                       !.excel_files = IF t = EXCEL THEN @ + 1 ELSE @,
                       !.excel_pages = IF t = EXCEL THEN @ + n ELSE @,
                       !.pdf_files = IF t = PDF THEN @ + 1 ELSE @,
                       !.pdf_pages = IF t = PDF THEN @ + n ELSE @]
       ELSE IF r.status \in SkippedStatuses
       THEN [sm EXCEPT !.skipped_count = @ + 1,
                       !.skipped_files = Append(@, r)]
       ELSE [sm EXCEPT !.error_count = @ + 1,
                       !.error_files = Append(@, r)]

RECURSIVE SummaryLoop(_, _, _)
SummaryLoop(sm, rs, k) ==
    IF k > Len(rs) THEN sm ELSE SummaryLoop(SummaryStep(sm, rs[k]), rs, k + 1)

\* _generate_summary
_generate_summary(rs) ==
    SummaryLoop([EmptySummary EXCEPT !.total_files = Len(rs)], rs, 1)

\* The state when show_page_count_dialog has started the background thread:
\* the manager is new, the thread is about to enter calculate_all_pages, the
\* dialog thread waits in wait_window.
InitCount ==
    /\ cancel_flag = FALSE
    /\ cpc = "l132"
    /\ ci = 0
    /\ results = <<>>
    /\ summary = NoSummary
    /\ gpc = "wait_window"
    /\ doc_env \in [CountDocs -> CountKinds]
    /\ cancel_log = [called |-> FALSE, late |-> 0]
    /\ count_log = <<>>

\* lines 132-133: self._cancel_flag = False; results = []
CountReset ==
    /\ cpc = "l132"
    /\ cancel_flag' = FALSE
    /\ results' = <<>>
    /\ cpc' = "l136"
    /\ UNCHANGED <<ci, summary, gpc, doc_env, cancel_log, count_log>>

\* lines 135-137: the loop takes the next document, or ends; with the flag set
\* it breaks
CountLoop ==
    /\ cpc = "l136"
    /\ IF ci < Len(documents) /\ ~cancel_flag
       THEN /\ cpc' = "l140"
            /\ cancel_log' = [cancel_log EXCEPT
                                !.late = IF cancel_log.called THEN @ + 1 ELSE @]
       ELSE /\ cpc' = "l154"
            /\ UNCHANGED cancel_log
    /\ UNCHANGED <<cancel_flag, ci, results, summary, gpc, doc_env, count_log>>

\* lines 140-144: the progress callback (i + 1, len(documents), file_name)
\* returns, or raises out of calculate_all_pages
CountProgress(raises) ==
    /\ cpc = "l140"
    /\ cpc' = IF raises THEN "raised" ELSE "l147"
    /\ UNCHANGED <<cancel_flag, ci, results, summary, gpc, doc_env, cancel_log,
                   count_log>>

\* lines 147-151: result = self._calculate_single_document(document);
\* results.append(result); the sleep
CountDocument ==
    /\ cpc = "l147"
    /\ results' = Append(results, _calculate_single_document(documents[ci + 1]))
    /\ count_log' = Append(count_log,
                           [trace |-> StatusTrace(documents[ci + 1]),
                            counter |-> CounterCalled(documents[ci + 1])])
    /\ ci' = ci + 1
    /\ cpc' = "l136"
    /\ UNCHANGED <<cancel_flag, summary, gpc, doc_env, cancel_log>>

\* lines 154-155: summary = self._generate_summary(results); return summary
CountSummary ==
    /\ cpc = "l154"
    /\ summary' = <<_generate_summary(results)>>
    /\ cpc' = "returned"
    /\ UNCHANGED <<cancel_flag, ci, results, gpc, doc_env, cancel_log, count_log>>

\* calculate_in_background, lines 655-658: after the return or the exception,
\* the thread closes the progress dialog unless it was cancelled
ThreadClose ==
    /\ cpc \in {"returned", "raised"}
    /\ gpc = "wait_window"
    /\ gpc' = "closed"
    /\ UNCHANGED <<cancel_flag, cpc, ci, results, summary, doc_env, cancel_log,
                   count_log>>

\* PageCountProgressDialog._on_cancel: the user presses cancel while the dialog
\* is open: cancelled = True and the dialog is destroyed, wait_window returns
UserCancel ==
    /\ gpc = "wait_window"
    /\ gpc' = "cancelled"
    /\ UNCHANGED <<cancel_flag, cpc, ci, results, summary, doc_env, cancel_log,
                   count_log>>

\* show_page_count_dialog, lines 667-669, and cancel_calculation:
\* self._cancel_flag = True
cancel_calculation ==
    /\ gpc = "cancelled"
    /\ cancel_flag' = TRUE
    /\ cancel_log' = [cancel_log EXCEPT !.called = TRUE]
    /\ gpc' = "cancel_requested"
    /\ UNCHANGED <<cpc, ci, results, summary, doc_env, count_log>>

RestCount ==
    /\ cancel_flag = FALSE
    /\ cpc = "rest"
    /\ ci = 0
    /\ results = <<>>
    /\ summary = NoSummary
    /\ gpc = "rest"
    /\ doc_env = [d \in CountDocs |-> CountKind(PDF, "ok", "pages", 3, {})]
    /\ cancel_log = [called |-> FALSE, late |-> 0]
    /\ count_log = <<>>

\* ========================================================== HandlerRegistry

\* The handlers that get registered, and what each declares. An extension is
\* held as its stem, whether it is written in upper case and whether it has the
\* leading dot; a handler declares its extensions with the dot.
Handlers == {"H1", "H2", "H3"}
NoHandler == "None"

Ext(dot, upper, stem) == [dot |-> dot, upper |-> upper, stem |-> stem]
Stems == {"pdf", "png", "doc", "txt"}
Extensions == { Ext(d, u, s) : d \in BOOLEAN, u \in BOOLEAN, s \in Stems }

get_supported_file_types(h) ==
    IF h = "H1" THEN {PDF, TEXT}
    ELSE IF h = "H2" THEN {PDF, IMAGE}
    ELSE {WORD}

get_supported_extensions(h) ==
    IF h = "H1" THEN {Ext(TRUE, FALSE, "pdf"), Ext(TRUE, FALSE, "txt")}
    ELSE IF h = "H2" THEN {Ext(TRUE, TRUE, "pdf"), Ext(TRUE, FALSE, "png")}
    ELSE {Ext(TRUE, FALSE, "doc"), Ext(TRUE, TRUE, "png")}

\* str.lower()
lower(e) == [e EXCEPT !.upper = FALSE]

\* extension.lower() of every declared extension of h
LoweredExtensions(h) == { lower(e) : e \in get_supported_extensions(h) }

\* The three collections of the registry.
Registry ==
    [handlers |-> handlers, file_type_handlers |-> file_type_handlers,
     extension_handlers |-> extension_handlers]

InitRegistry ==
    /\ handlers = <<>>
    /\ file_type_handlers = <<>>
    /\ extension_handlers = <<>>
    /\ reg_log = [op |-> "none", handler |-> NoHandler, warned |-> FALSE]
    /\ reg_before = Registry

RestRegistry == InitRegistry

\* A registry in which the first handler registered for a type or an extension
\* keeps it.
register_handler_first_wins(handler) ==
    IF handler \in Range(handlers)
    THEN /\ reg_log' = [op |-> "already_registered", handler |-> handler,
                        warned |-> FALSE]
         /\ UNCHANGED <<handlers, file_type_handlers, extension_handlers, reg_before>>
    ELSE LET types == get_supported_file_types(handler)
             exts == LoweredExtensions(handler)
         IN /\ handlers' = Append(handlers, handler)
            /\ reg_before' = Registry
            /\ file_type_handlers' =
                 [t \in DOMAIN file_type_handlers \cup types |->
                    IF t \in DOMAIN file_type_handlers
                    THEN file_type_handlers[t] ELSE handler]
            /\ extension_handlers' =
                 [e \in DOMAIN extension_handlers \cup exts |->
                    IF e \in DOMAIN extension_handlers
                    THEN extension_handlers[e] ELSE handler]
            /\ reg_log' = [op |-> "registered", handler |-> handler,
                           warned |-> \/ types \cap DOMAIN file_type_handlers # {}
                                      \/ exts \cap DOMAIN extension_handlers # {}]

\* register_handler: a handler already in the list is left alone; else it is
\* appended and takes every file type and every lower-cased extension it
\* declares, with a printed warning for each one that had a handler
register_handler(handler) ==
    IF handler \in Range(handlers)
    THEN /\ reg_log' = [op |-> "already_registered", handler |-> handler,
                        warned |-> FALSE]
         /\ UNCHANGED <<handlers, file_type_handlers, extension_handlers, reg_before>>
    ELSE LET types == get_supported_file_types(handler)
             exts == LoweredExtensions(handler)
         IN /\ handlers' = Append(handlers, handler)
            /\ reg_before' = Registry
            /\ file_type_handlers' =
                 [t \in DOMAIN file_type_handlers \cup types |->
                    IF t \in types THEN handler ELSE file_type_handlers[t]]
            /\ extension_handlers' =
                 [e \in DOMAIN extension_handlers \cup exts |->
                    IF e \in exts THEN handler ELSE extension_handlers[e]]
            /\ reg_log' = [op |-> "registered", handler |-> handler,
                           warned |-> \/ types \cap DOMAIN file_type_handlers # {}
                                      \/ exts \cap DOMAIN extension_handlers # {}]

\* list.remove(handler)
Remove(q, x) == SelectSeq(q, LAMBDA y : y # x)

\* unregister_handler: a handler not in the list is left alone; else it is
\* removed from the list and from every entry that still maps to it
unregister_handler(handler) ==
    IF handler \notin Range(handlers)
    THEN /\ reg_log' = [op |-> "not_registered", handler |-> handler,
                        warned |-> FALSE]
         /\ UNCHANGED <<handlers, file_type_handlers, extension_handlers, reg_before>>
    ELSE /\ handlers' = Remove(handlers, handler)
         /\ UNCHANGED reg_before
         /\ file_type_handlers' =
              [t \in { x \in DOMAIN file_type_handlers :
                         ~(x \in get_supported_file_types(handler)
                           /\ file_type_handlers[x] = handler) } |->
                 file_type_handlers[t]]
         /\ extension_handlers' =
              [e \in { x \in DOMAIN extension_handlers :
                         ~(x \in LoweredExtensions(handler)
                           /\ extension_handlers[x] = handler) } |->
                 extension_handlers[e]]
         /\ reg_log' = [op |-> "unregistered", handler |-> handler, warned |-> FALSE]

\* get_handler_by_file_type: self._file_type_handlers.get(file_type)
get_handler_by_file_type(ft) ==
    IF ft \in DOMAIN file_type_handlers THEN file_type_handlers[ft] ELSE NoHandler

\* get_handler_by_extension: the dot is added when missing, the extension is
\* lower-cased, then self._extension_handlers.get
get_handler_by_extension(extension) ==
    LET dotted == IF ~extension.dot THEN [extension EXCEPT !.dot = TRUE]
                  ELSE extension
    IN IF lower(dotted) \in DOMAIN extension_handlers
       THEN extension_handlers[lower(dotted)] ELSE NoHandler

\* get_handler_by_file_path, for a path whose suffix is the dotted extension
\* suffix: file_path.suffix.lower(), then get_handler_by_extension
get_handler_by_file_path(suffix) ==
    get_handler_by_extension(lower(suffix))

\* ============================================================ models.py

\* A member of an Enum class, and Enum(value): the member of the class with that
\* value (the values used here are values of their classes).
Member(cls, value) == [enum |-> cls, value |-> value]
ColorMode == { Member("ColorMode", v) : v \in {"color", "grayscale"} }
Orientation == { Member("Orientation", v) : v \in {"portrait", "landscape"} }
DuplexMode ==
    { Member("DuplexMode", v) : v \in {"simplex", "duplex", "duplexshort", "duplexlong"} }
ScalingMode == { Member("ScalingMode", v) : v \in {"fit", "shrink", "noscale"} }

\* The PrintSettings values: every member of the four enums, and a few values
\* of the plain fields.
PrintSettingsValues ==
    [printer_name : {"P"}, paper_size : {"A4", "A3"}, copies : {1, 2},
     duplex : BOOLEAN, duplex_mode : DuplexMode, color_mode : ColorMode,
     orientation : Orientation, scaling : ScalingMode]

SettingsKeys ==
    {"printer_name", "paper_size", "copies", "duplex", "duplex_mode", "color_mode",
     "orientation", "scaling"}

\* PrintSettings.to_dict
to_dict(s) ==
    [k \in SettingsKeys |->
       CASE k = "printer_name" -> s.printer_name
         [] k = "paper_size" -> s.paper_size
         [] k = "copies" -> s.copies
         [] k = "duplex" -> s.duplex
         [] k = "duplex_mode" -> s.duplex_mode.value
         [] k = "color_mode" -> s.color_mode.value
         [] k = "orientation" -> s.orientation.value
         [] k = "scaling" -> s.scaling.value]

\* data.get(key, default)
Get(data, key, default) == IF key \in DOMAIN data THEN data[key] ELSE default

\* A from_dict whose default colour mode is colour.
from_dict_color_default(data) ==
    [printer_name |-> Get(data, "printer_name", ""),
     paper_size |-> Get(data, "paper_size", "A4"),
     copies |-> Get(data, "copies", 1),
     duplex |-> Get(data, "duplex", FALSE),
     duplex_mode |-> Member("DuplexMode", Get(data, "duplex_mode", "duplexlong")),
     color_mode |-> Member("ColorMode", Get(data, "color_mode", "color")),
     orientation |-> Member("Orientation", Get(data, "orientation", "portrait")),
     scaling |-> Member("ScalingMode", Get(data, "scaling", "fit"))]

\* PrintSettings.from_dict
from_dict(data) ==
    [printer_name |-> Get(data, "printer_name", ""),
     paper_size |-> Get(data, "paper_size", "A4"),
     copies |-> Get(data, "copies", 1),
     duplex |-> Get(data, "duplex", FALSE),
     duplex_mode |-> Member("DuplexMode", Get(data, "duplex_mode", "duplexlong")),
     color_mode |-> Member("ColorMode", Get(data, "color_mode", "grayscale")),
     orientation |-> Member("Orientation", Get(data, "orientation", "portrait")),
     scaling |-> Member("ScalingMode", Get(data, "scaling", "fit"))]

\* A settings value s is written with to_dict; the stored dict may lose keys
\* (an older or hand-edited file); from_dict reads it back.
InitSettings ==
    /\ ps_value \in PrintSettingsValues
    /\ ps_dict = <<>>
    /\ ps_back = <<>>
    /\ ps_pc = "value"

RestSettings ==
    /\ ps_value = from_dict(<<>>)
    /\ ps_dict = <<>>
    /\ ps_back = <<>>
    /\ ps_pc = "rest"

SettingsToDict ==
    /\ ps_pc = "value"
    /\ ps_dict' = to_dict(ps_value)
    /\ ps_pc' = "dict"
    /\ UNCHANGED <<ps_value, ps_back>>

SettingsDropKey(k) ==
    /\ ps_pc = "dict"
    /\ k \in DOMAIN ps_dict
    /\ Cardinality(SettingsKeys \ DOMAIN ps_dict) < MaxDropped
    /\ ps_dict' = [j \in DOMAIN ps_dict \ {k} |-> ps_dict[j]]
    /\ UNCHANGED <<ps_value, ps_back, ps_pc>>

SettingsFromDict ==
    /\ ps_pc = "dict"
    /\ ps_back' = from_dict(ps_dict)
    /\ ps_pc' = "back"
    /\ UNCHANGED <<ps_value, ps_dict>>

\* =================================================== Document, DocumentManager

\* A file path as far as a Document reads it: file_path.suffix, held as an Ext
\* with the dot; the empty suffix is NoSuffix.
NoSuffix == Ext(FALSE, FALSE, "")
WordStems == {"doc", "docx", "wps"}
PptStems == {"ppt", "pptx", "dps"}
ExcelStems == {"xls", "xlsx", "et"}
ImageStems == {"jpg", "jpeg", "png", "bmp", "tiff", "tif", "webp"}
OtherStems == {"gif", "docm", "md"}
Paths ==
    { Ext(TRUE, FALSE, s) :
        s \in WordStems \cup PptStems \cup ExcelStems \cup ImageStems
              \cup OtherStems \cup {"pdf", "txt"} }
    \cup { Ext(TRUE, TRUE, s) : s \in {"pdf", "docx", "jpg", "gif"} }
    \cup { NoSuffix }

\* The files the user adds to the document set.
AddedPaths ==
    { Ext(TRUE, FALSE, s) : s \in {"docx", "pptx", "et", "webp", "txt", "gif"} }
    \cup { Ext(TRUE, TRUE, "pdf"), NoSuffix }

\* A constructor call that raises ValueError gives Raises(ValueError) and no
\* object.
ValueError == "ValueError"
Raises(e) == [raises |-> e]
Raised(x) == "raises" \in DOMAIN x

\* A Document whose suffix is compared as written.
DocumentCaseSensitive(file_path) ==
    LET suffix == file_path
        doc(t) == [file_path |-> file_path, file_type |-> t, print_status |-> PENDING]
    IN IF ~suffix.dot \/ suffix.upper THEN Raises(ValueError)
       ELSE IF suffix.stem \in WordStems THEN doc(WORD)
       ELSE IF suffix.stem \in PptStems THEN doc(PPT)
       ELSE IF suffix.stem \in ExcelStems THEN doc(EXCEL)
       ELSE IF suffix.stem = "pdf" THEN doc(PDF)
       ELSE IF suffix.stem \in ImageStems THEN doc(IMAGE)
       ELSE IF suffix.stem = "txt" THEN doc(TEXT)
       ELSE Raises(ValueError)

\* Document(file_path): __post_init__ lower-cases the suffix and sets file_type
\* from it, or raises ValueError
Document(file_path) ==
    LET suffix == lower(file_path)
        doc(t) == [file_path |-> file_path, file_type |-> t, print_status |-> PENDING]
    IN IF ~suffix.dot THEN Raises(ValueError)
       ELSE IF suffix.stem \in {"doc", "docx", "wps"} THEN doc(WORD)
       ELSE IF suffix.stem \in {"ppt", "pptx", "dps"} THEN doc(PPT)
       ELSE IF suffix.stem \in {"xls", "xlsx", "et"} THEN doc(EXCEL)
       ELSE IF suffix.stem = "pdf" THEN doc(PDF)
       ELSE IF suffix.stem \in {"jpg", "jpeg", "png", "bmp", "tiff", "tif", "webp"}
       THEN doc(IMAGE)
       ELSE IF suffix.stem = "txt" THEN doc(TEXT)
       ELSE Raises(ValueError)

\* DocumentManager.SUPPORTED_EXTENSIONS
SUPPORTED_EXTENSIONS ==
    { Ext(TRUE, FALSE, s) :
        s \in {"doc", "docx", "wps", "ppt", "pptx", "dps", "xls", "xlsx", "et", "pdf",
               "jpg", "jpeg", "png", "bmp", "tiff", "tif", "webp", "txt"} }

\* _validate_file for an existing regular file of moderate size
_validate_file(file_path) == lower(file_path) \in SUPPORTED_EXTENSIONS

InitDocuments ==
    /\ dm_documents = <<>>
    /\ dm_new = [file_path |-> NoSuffix, outcome |-> "none"]

RestDocuments == InitDocuments

\* Document(file_path=p) constructed by any caller
NewDocument(p) ==
    /\ dm_new' = [file_path |-> p,
                  outcome |-> IF Raised(Document(p)) THEN ValueError
                              ELSE Document(p).file_type]
    /\ UNCHANGED dm_documents

\* DocumentManager.add_file with no sort key set: an invalid file, a path
\* already in the set and a failed construction add nothing
add_file(file_path) ==
    /\ Len(dm_documents) < MaxListed
    /\ IF \/ ~_validate_file(file_path)
          \/ \E k \in 1..Len(dm_documents) : dm_documents[k].file_path = file_path
          \/ Raised(Document(file_path))
       THEN UNCHANGED dm_documents
       ELSE dm_documents' = Append(dm_documents, Document(file_path))
    /\ UNCHANGED dm_new

\* DocumentManager.remove_document of the document at position k
remove_document(k) ==
    /\ k \in 1..Len(dm_documents)
    /\ dm_documents' = [j \in 1..(Len(dm_documents) - 1) |->
                          IF j < k THEN dm_documents[j] ELSE dm_documents[j + 1]]
    /\ UNCHANGED dm_new

\* DocumentManager.clear_all
clear_all ==
    /\ dm_documents' = <<>>
    /\ UNCHANGED dm_new

\* DocumentManager.update_document_status, and the status writes of
\* _execute_batch_print on a listed Document object
update_document_status(k, status) ==
    /\ k \in 1..Len(dm_documents)
    /\ dm_documents' = [dm_documents EXCEPT ![k].print_status = status]
    /\ UNCHANGED dm_new

\* ===================================================== Excel page counting

\* "A4 holds about 45 rows and 8 columns"
RowsPerPage == 45
ColsPerPage == 8

\* A worksheet as the two counters read it: UsedRange.Rows.Count and
\* Columns.Count, HPageBreaks.Count and VPageBreaks.Count, and which of the
\* reads Excel refuses: none (ok), the page breaks (no_breaks), the used range
\* (no_range). A sheet without content has 0 rows.
Sheet(r, c, h, v, a) ==
    [rows |-> r, cols |-> c, hbreaks |-> h, vbreaks |-> v, access |-> a]

SheetKinds ==
    { Sheet(200, 3, 0, 0, "ok"),
      Sheet(1, 1, 0, 0, "ok"),
      Sheet(45, 8, 0, 0, "ok"),
      Sheet(46, 9, 0, 0, "ok"),
      Sheet(0, 0, 0, 0, "ok"),
      Sheet(10, 2, 1, 0, "ok"),
      Sheet(100, 20, 0, 0, "no_breaks"),
      Sheet(5, 5, 0, 0, "no_range") }

\* The workbooks: one that Excel opens, with its worksheets in order, and one
\* whose Workbooks.Open raises a text without keywords.
Books ==
    { [open |-> "ok", sheets |-> q] :
        q \in UNION { [1..n -> SheetKinds] : n \in 1..MaxSheets } }
    \cup { [open |-> "fails", sheets |-> <<>>] }

\* What a call did: nothing yet, returned value, or raised the exception e.
NotCalled == [kind |-> "none", value |-> 0, exc |-> <<>>]
Returns(n) == [kind |-> "returned", value |-> n, exc |-> <<>>]
RaisesExc(e) == [kind |-> "raised", value |-> 0, exc |-> <<e>>]

Max(a, b) == IF a >= b THEN a ELSE b

\* lines 723-725 and 740-742: max(1, (rows + 44) // 45) * max(1, (cols + 7) // 8)
EstimatedPages(rows, cols) ==
    Max(1, (rows + (RowsPerPage - 1)) \div RowsPerPage)
      * Max(1, (cols + (ColsPerPage - 1)) \div ColsPerPage)

\* _calculate_excel_pages, lines 698-748: what one worksheet adds to total_pages
ManagerSheetPages(sh) ==
    IF sh.access = "no_range" THEN 1
    ELSE IF sh.rows = 0 THEN 0
    ELSE IF sh.access = "no_breaks"
    THEN IF sh.rows <= RowsPerPage /\ sh.cols <= ColsPerPage THEN 1
         ELSE EstimatedPages(sh.rows, sh.cols)
    ELSE LET worksheet_pages == (sh.hbreaks + 1) * (sh.vbreaks + 1)
         IN IF worksheet_pages <= 1 THEN EstimatedPages(sh.rows, sh.cols)
            ELSE worksheet_pages

\* _count_pages_with_xlwings, lines 76-93: what one worksheet adds to total_pages
HandlerSheetPages(sh) ==
    IF sh.access = "no_breaks" THEN 1
    ELSE Max(1, (sh.hbreaks + 1) * (sh.vbreaks + 1))

\* total_pages += ... over the worksheets from the k-th on; pages[k] is what the
\* k-th worksheet adds
RECURSIVE TotalPages(_, _)
TotalPages(pages, k) ==
    IF k > Len(pages) THEN 0 ELSE pages[k] + TotalPages(pages, k + 1)

\* PageCountManager._calculate_excel_pages
_calculate_excel_pages(book) ==
    IF book.open = "fails" THEN RaisesExc(CounterError(EXCEL, {}))
    ELSE Returns(Max(1, TotalPages([k \in 1..Len(book.sheets) |->
                                      ManagerSheetPages(book.sheets[k])], 1)))

\* ExcelDocumentHandler.count_pages on a file it can handle:
\* _count_pages_with_xlwings, which returns 1 when the workbook does not open
Excel_count_pages(book) ==
    IF book.open = "fails" THEN Returns(1)
    ELSE Returns(Max(TotalPages([k \in 1..Len(book.sheets) |->
                                   HandlerSheetPages(book.sheets[k])], 1), 1))

InitExcel ==
    /\ xl_book \in Books
    /\ xl_manager = NotCalled
    /\ xl_handler = NotCalled

RestExcel ==
    /\ xl_book = [open |-> "fails", sheets |-> <<>>]
    /\ xl_manager = NotCalled
    /\ xl_handler = NotCalled

\* PageCountManager counts the workbook
ManagerCountsExcel ==
    /\ xl_manager = NotCalled
    /\ xl_manager' = _calculate_excel_pages(xl_book)
    /\ UNCHANGED <<xl_book, xl_handler>>

\* the Excel handler counts the workbook
HandlerCountsExcel ==
    /\ xl_handler = NotCalled
    /\ xl_handler' = Excel_count_pages(xl_book)
    /\ UNCHANGED <<xl_book, xl_manager>>

\* ================================================ office automation hosts

\* The methods that start Word, PowerPoint or Excel, and how each cleans up:
\*   separate_tries  the finally block closes the document in one try and quits
\*                   the host in another
\*   one_try         the finally block closes and quits inside the same try
\*   close_in_body   the document is closed in the try body, the finally block
\*                   only quits
HostRoutine(name, cleanup) == [name |-> name, cleanup |-> cleanup]

HostRoutines ==
    { HostRoutine("ExcelDocumentHandler._count_pages_with_xlwings", "one_try"),
      HostRoutine("ExcelDocumentHandler.print_document", "one_try"),
      HostRoutine("WordDocumentHandler.count_pages", "separate_tries"),
      HostRoutine("WordDocumentHandler.print_document", "close_in_body"),
      HostRoutine("PowerPointDocumentHandler.print_document", "separate_tries"),
      HostRoutine("PowerPointDocumentHandler._try_com_method_standard",
                  "separate_tries"),
      HostRoutine("PageCountManager._calculate_word_pages", "separate_tries"),
      HostRoutine("PageCountManager._calculate_excel_pages", "separate_tries") }

\* The call into the host that raises during the invocation: none, the open of
\* the document, the statistics or print call, the close of the document.
HostEnv == {"none", "open", "work", "close"}

InitHosts ==
    /\ host_routine \in HostRoutines
    /\ host_env \in HostEnv
    /\ host_pc = "call"
    /\ host_app = FALSE
    /\ host_doc = "none"
    /\ host_quit = FALSE

RestHosts ==
    /\ host_routine = HostRoutine("none", "separate_tries")
    /\ host_env = "none"
    /\ host_pc = "rest"
    /\ host_app = FALSE
    /\ host_doc = "none"
    /\ host_quit = FALSE

\* xw.App(...), comtypes.client.CreateObject(...), win32com.client.Dispatch(...)
HostStart ==
    /\ host_pc = "call"
    /\ host_app' = TRUE
    /\ host_pc' = "open"
    /\ UNCHANGED <<host_routine, host_env, host_doc, host_quit>>

\* app.books.open, Documents.Open, Presentations.Open: the document is open, or
\* the call raises and control goes to the finally block
HostOpen ==
    /\ host_pc = "open"
    /\ IF host_env = "open"
       THEN host_pc' = "finally" /\ UNCHANGED host_doc
       ELSE host_pc' = "work" /\ host_doc' = "open"
    /\ UNCHANGED <<host_routine, host_env, host_app, host_quit>>

\* The page breaks, ComputeStatistics, Slides.Count or PrintOut; in
\* WordDocumentHandler.print_document also doc.Close (line 99). Whether they
\* return or raise, the finally block runs next.
HostWork ==
    /\ host_pc = "work"
    /\ host_doc' = IF /\ host_routine.cleanup = "close_in_body"
                      /\ host_env = "none"
                   THEN "closed" ELSE host_doc
    /\ host_pc' = "finally"
    /\ UNCHANGED <<host_routine, host_env, host_app, host_quit>>

\* The finally block up to the quit: the close of an open document. When the
\* close raises, the try it is in is left: with one_try that is the try which
\* holds the quit too, so the block ends without it.
HostClose ==
    /\ host_pc = "finally"
    /\ IF host_routine.cleanup = "close_in_body" \/ host_doc # "open"
       THEN host_pc' = "quit" /\ UNCHANGED host_doc
       ELSE IF host_env = "close"
       THEN /\ host_pc' = IF host_routine.cleanup = "one_try" THEN "ended" ELSE "quit"
            /\ UNCHANGED host_doc
       ELSE host_pc' = "quit" /\ host_doc' = "closed"
    /\ UNCHANGED <<host_routine, host_env, host_app, host_quit>>

\* app.quit(), word.Quit(), ppt_app.Quit(), excel_app.Quit(); then the invocation
\* returns or raises
HostQuit ==
    /\ host_pc = "quit"
    /\ host_quit' = TRUE
    /\ host_pc' = "ended"
    /\ UNCHANGED <<host_routine, host_env, host_app, host_doc>>

\* ================================================ PowerPoint slide counting

\* The two strategies: "com", _calculate_ppt_pages_com (PowerPoint automation),
\* and "pptx", _calculate_ppt_pages_pptx (the python-pptx reader).
Strategies == {"com", "pptx"}

\* What an engine does with the file: it reports n slides, or raises a text
\* that contains the keywords K.
EngineReports(n) == [raises |-> FALSE, slides |-> n, text |-> {}]
EngineFails(K) == [raises |-> TRUE, slides |-> 0, text |-> K]

PptEnvs ==
    [com : {EngineReports(5), EngineReports(0), EngineFails({}), EngineFails({"locked"})},
     pptx : {EngineReports(7), EngineReports(0), EngineFails({}),
             EngineFails({"password"})}]

\* _calculate_ppt_pages_pptx: len(prs.slides), or the exception of lines 211-216
_calculate_ppt_pages_pptx(e) ==
    IF e.raises THEN RaisesExc(CounterError(PPT, e.text))
    ELSE IF e.slides < 0 THEN RaisesExc(FileDamaged)
    ELSE Returns(e.slides)

\* _calculate_ppt_pages_com (_try_com_method_visible / _standard):
\* presentation.Slides.Count, or the exception of the six-keyword test
_calculate_ppt_pages_com(e) ==
    IF e.raises
    THEN RaisesExc(IF e.text \cap Keywords # {} THEN FileEncrypted ELSE FileDamaged)
    ELSE IF e.slides < 0 THEN RaisesExc(FileDamaged)
    ELSE Returns(e.slides)

Strategy(name, env) ==
    IF name = "com" THEN _calculate_ppt_pages_com(env.com)
    ELSE _calculate_ppt_pages_pptx(env.pptx)

Other(name) == IF name = "com" THEN "pptx" ELSE "com"

\* A chain that tries the library reader first for every extension.
FirstStrategyLibrary(ext) == "pptx"

\* count_pages, lines 161-192: the strategy tried first for the extension
FirstStrategy(ext) == IF ext = ".ppt" THEN "com" ELSE "pptx"

\* Exception(f"无法统计.ppt文件页数。COM方式失败: {com_error}")
CannotCountPpt == Exc("cannot_count_ppt", {})

InitPpt ==
    /\ ppt_ext \in {".ppt", ".pptx", ".dps"}
    /\ ppt_env \in PptEnvs
    /\ ppt_pc = "call"
    /\ ppt_calls = <<>>
    /\ ppt_first = NotCalled
    /\ ppt_out = NotCalled

RestPpt ==
    /\ ppt_ext = ".pptx"
    /\ ppt_env = [com |-> EngineReports(5), pptx |-> EngineReports(7)]
    /\ ppt_pc = "rest"
    /\ ppt_calls = <<>>
    /\ ppt_first = NotCalled
    /\ ppt_out = NotCalled

\* The first strategy is called: its count is returned, or its exception is
\* caught and the second strategy is up
PptFirst ==
    /\ ppt_pc = "call"
    /\ LET first == FirstStrategy(ppt_ext)
           r == Strategy(first, ppt_env)
       IN /\ ppt_calls' = <<first>>
          /\ ppt_first' = r
          /\ IF r.kind = "returned"
             THEN ppt_out' = r /\ ppt_pc' = "done"
             ELSE UNCHANGED ppt_out /\ ppt_pc' = "fallback"
    /\ UNCHANGED <<ppt_ext, ppt_env>>

\* The second strategy is called from the except block: its count is returned;
\* when it raises too, .ppt raises a new exception naming the first error,
\* .pptx re-raises the first error, any other extension lets the second error
\* through
PptSecond ==
    /\ ppt_pc = "fallback"
    /\ LET second == Other(ppt_calls[1])
           r == Strategy(second, ppt_env)
       IN /\ ppt_calls' = Append(ppt_calls, second)
          /\ ppt_out' = IF r.kind = "returned" THEN r
                        ELSE IF ppt_ext = ".ppt" THEN RaisesExc(CannotCountPpt)
                        ELSE IF ppt_ext = ".pptx" THEN ppt_first
                        ELSE r
    /\ ppt_pc' = "done"
    /\ UNCHANGED <<ppt_ext, ppt_env, ppt_first>>

\* ==================================================== the specifications

\* Spec: PrintController. The caller's thread makes the public calls in any
\* order (MainWindow._start_printing makes them as is_printing, clear_queue,
\* add_documents_to_queue, start_batch_print); the executor's worker threads run
\* _execute_batch_print. PrinterConfigManager and PageCountManager are not
\* reached from PrintController and stay at rest.
Init ==
    InitPrint /\ RestConfig /\ RestCount
    /\ RestRegistry /\ RestSettings /\ RestDocuments /\ RestExcel /\ RestHosts
    /\ RestPpt

Next ==
    \/ \E s \in CallerSettings :
         set_print_settings(s) /\ UNCHANGED exceptPrint
    \/ \E ds \in SeqsOver(Docs) :
         add_documents_to_queue(ds) /\ UNCHANGED exceptPrint
    \/ clear_queue /\ UNCHANGED exceptPrint
    \/ start_batch_print /\ UNCHANGED exceptPrint
    \/ \E w \in Workers : WorkerTake(w) /\ UNCHANGED exceptPrint
    \/ \E w \in Workers : ExecSetFlag(w) /\ UNCHANGED exceptPrint
    \/ \E w \in Workers : ExecReadTotal(w) /\ UNCHANGED exceptPrint
    \/ \E w \in Workers : ExecNext(w) /\ UNCHANGED exceptPrint
    \/ \E w \in Workers, raises \in BOOLEAN :
         ExecProgress(w, raises) /\ UNCHANGED exceptPrint
    \/ \E w \in Workers : ExecSetPrinting(w) /\ UNCHANGED exceptPrint
    \/ \E w \in Workers : ExecPrint(w) /\ UNCHANGED exceptPrint
    \/ \E w \in Workers : ExecFinish(w) /\ UNCHANGED exceptPrint

Spec == Init /\ [][Next]_vars

\* SpecLive: Spec with the scheduling the executor gives: a submitted work item
\* is taken by a free worker thread, and a worker thread that can take its next
\* step takes it (every call it makes returns or raises).
WorkerStep(w) ==
    \/ WorkerTake(w)
    \/ ExecSetFlag(w)
    \/ ExecReadTotal(w)
    \/ ExecNext(w)
    \/ \E raises \in BOOLEAN : ExecProgress(w, raises)
    \/ ExecSetPrinting(w)
    \/ ExecPrint(w)
    \/ ExecFinish(w)

SpecLive ==
    Spec /\ \A w \in Workers : WF_vars(WorkerStep(w) /\ UNCHANGED exceptPrint)

\* SpecConfig: PrinterConfigManager, called as its interface allows.
InitCfg ==
    InitConfig /\ RestPrint /\ RestCount
    /\ RestRegistry /\ RestSettings /\ RestDocuments /\ RestExcel /\ RestHosts
    /\ RestPpt

NextCfg ==
    \/ \E p \in Printers, s \in ConfigSettings, env \in ApplyEnv :
         apply_batch_print_settings(p, s, env) /\ UNCHANGED exceptConfig
    \/ \E p \in Printers \cup {NoPrinter}, env \in RestoreEnv :
         restore_printer_config(p, env) /\ UNCHANGED exceptConfig

SpecConfig == InitCfg /\ [][NextCfg]_vars

\* SpecCount: show_page_count_dialog: calculate_all_pages on the background
\* thread, the dialog thread that may cancel it.
InitCnt ==
    InitCount /\ RestPrint /\ RestConfig
    /\ RestRegistry /\ RestSettings /\ RestDocuments /\ RestExcel /\ RestHosts
    /\ RestPpt

NextCnt ==
    \/ CountReset /\ UNCHANGED exceptCount
    \/ CountLoop /\ UNCHANGED exceptCount
    \/ \E raises \in BOOLEAN : CountProgress(raises) /\ UNCHANGED exceptCount
    \/ CountDocument /\ UNCHANGED exceptCount
    \/ CountSummary /\ UNCHANGED exceptCount
    \/ ThreadClose /\ UNCHANGED exceptCount
    \/ UserCancel /\ UNCHANGED exceptCount
    \/ cancel_calculation /\ UNCHANGED exceptCount

SpecCount == InitCnt /\ [][NextCnt]_vars

\* SpecRegistry: HandlerRegistry, called as its interface allows.
InitReg ==
    InitRegistry /\ RestPrint /\ RestConfig
    /\ RestCount /\ RestSettings /\ RestDocuments /\ RestExcel /\ RestHosts
    /\ RestPpt

NextReg ==
    \/ \E h \in Handlers :
         register_handler(h) /\ UNCHANGED exceptRegistry
    \/ \E h \in Handlers :
         unregister_handler(h) /\ UNCHANGED exceptRegistry

SpecRegistry == InitReg /\ [][NextReg]_vars

\* SpecSettings: a PrintSettings value written with to_dict and read back with
\* from_dict.
InitSet ==
    InitSettings /\ RestPrint /\ RestConfig
    /\ RestCount /\ RestRegistry /\ RestDocuments /\ RestExcel /\ RestHosts
    /\ RestPpt

NextSet ==
    \/ SettingsToDict /\ UNCHANGED exceptSettings
    \/ \E k \in SettingsKeys :
         SettingsDropKey(k) /\ UNCHANGED exceptSettings
    \/ SettingsFromDict /\ UNCHANGED exceptSettings

SpecSettings == InitSet /\ [][NextSet]_vars

\* SpecDocuments: Document objects are constructed, and DocumentManager keeps
\* a list of them whose statuses the print batch writes.
InitDoc ==
    InitDocuments /\ RestPrint /\ RestConfig
    /\ RestCount /\ RestRegistry /\ RestSettings /\ RestExcel /\ RestHosts
    /\ RestPpt

NextDoc ==
    \/ \E p \in Paths :
         NewDocument(p) /\ UNCHANGED exceptDocuments
    \/ \E p \in AddedPaths :
         add_file(p) /\ UNCHANGED exceptDocuments
    \/ \E k \in 1..MaxListed :
         remove_document(k) /\ UNCHANGED exceptDocuments
    \/ clear_all /\ UNCHANGED exceptDocuments
    \/ \E k \in 1..MaxListed, st \in {PRINTING, COMPLETED, ERROR} :
         update_document_status(k, st) /\ UNCHANGED exceptDocuments

SpecDocuments == InitDoc /\ [][NextDoc]_vars

\* SpecExcel: one workbook counted by PageCountManager and by the Excel
\* handler.
InitXl ==
    InitExcel /\ RestPrint /\ RestConfig /\ RestCount
    /\ RestRegistry /\ RestSettings /\ RestDocuments /\ RestHosts /\ RestPpt

NextXl ==
    \/ ManagerCountsExcel /\ UNCHANGED exceptExcel
    \/ HandlerCountsExcel /\ UNCHANGED exceptExcel

SpecExcel == InitXl /\ [][NextXl]_vars

\* SpecHosts: one invocation of a method that starts an automation host.
InitHst ==
    InitHosts /\ RestPrint /\ RestConfig /\ RestCount
    /\ RestRegistry /\ RestSettings /\ RestDocuments /\ RestExcel /\ RestPpt

NextHst ==
    \/ HostStart /\ UNCHANGED exceptHosts
    \/ HostOpen /\ UNCHANGED exceptHosts
    \/ HostWork /\ UNCHANGED exceptHosts
    \/ HostClose /\ UNCHANGED exceptHosts
    \/ HostQuit /\ UNCHANGED exceptHosts

SpecHosts == InitHst /\ [][NextHst]_vars

\* SpecPpt: one call of PowerPointDocumentHandler.count_pages, which
\* PageCountManager._calculate_ppt_pages repeats line for line.
InitPp ==
    InitPpt /\ RestPrint /\ RestConfig /\ RestCount
    /\ RestRegistry /\ RestSettings /\ RestDocuments /\ RestExcel /\ RestHosts

NextPp ==
    \/ PptFirst /\ UNCHANGED exceptPpt
    \/ PptSecond /\ UNCHANGED exceptPpt

SpecPpt == InitPp /\ [][NextPp]_vars

\* ================================================================ claims

Iterating(w) == wpc[w] \in {"l102", "l105", "l112", "l115"}

\* The step in which worker w's batch execution ends.
Finishes(w) == wpc[w] = "l135" /\ wpc'[w] = "idle"

\* C1 (Spec): a start_batch_print call made while a batch is active (submitted
\* by an earlier call and not yet finished) raises the "already in progress"
\* RuntimeError, so it submits no second batch.
C1_ActiveStartRaises ==
    start_log.active => start_log.result = "RuntimeError"

\* C2 (Spec): at most one execution of _execute_batch_print iterates the print
\* queue at any time.
C2_OneBatchInFlight ==
    Cardinality({ w \in Workers : Iterating(w) }) <= 1

\* C3 (Spec): when a batch execution ends whose two or more documents hold
\* exactly one whose print fails while that of every other succeeds, every other document was
\* printed and is COMPLETED, the failing one is ERROR, and the execution counted
\* one error and the rest as successes.
C3_OneFailureOneError ==
    [][\A w \in Workers :
         Finishes(w) =>
           LET B == wloc[w].batch_docs
               F == { d \in B : ~_print_single_document(d) }
           IN (Cardinality(B) >= 2 /\ Cardinality(F) = 1) =>
                /\ wloc[w].error_count = 1
                /\ wloc[w].success_count = Cardinality(B) - 1
                /\ \A d \in B \ F : d \in wloc[w].printed /\ print_status'[d] = COMPLETED
                /\ \A d \in F : print_status'[d] = ERROR]_vars

\* C4 (Spec): when a batch execution ends, every document that was in the queue
\* is COMPLETED or ERROR, and it is COMPLETED exactly when its print was invoked
\* and returned true.
C4_TerminalStatusAtFinish ==
    [][\A w \in Workers :
         Finishes(w) =>
           \A d \in wloc[w].batch_docs :
             /\ print_status'[d] \in {COMPLETED, ERROR}
             /\ print_status'[d] = COMPLETED
                  <=> (d \in wloc[w].printed /\ _print_single_document(d))]_vars

\* The four fields of a DEVMODE that the claims compare.
SameConfig(a, b) ==
    /\ a.Duplex = b.Duplex
    /\ a.Color = b.Color
    /\ a.Orientation = b.Orientation
    /\ a.PaperSize = b.PaperSize

\* C5 (Spec): while a batch whose settings name a printer prints a document,
\* that printer's configuration has been snapshotted and overwritten with the
\* settings; when no batch is in flight no snapshot is outstanding.
C5_ConfigAppliedAndRestored ==
    /\ \A w \in Workers :
         (wpc[w] = "l115" /\ current_settings # NoSettings) =>
           LET s == current_settings[1] IN
             s.printer_name # "" =>
               /\ s.printer_name \in DOMAIN original_configs
               /\ SameConfig(devmode[s.printer_name],
                             SettingsDevMode(devmode[s.printer_name], s))
    /\ ~BatchActive => DOMAIN original_configs = {}

\* C6 (SpecConfig): after a successful apply_batch_print_settings(p, s) followed
\* by a successful restore_printer_config(p), p's duplex, color, orientation and
\* paper size equal their values before the apply.
C6_ApplyRestoreRoundTrip ==
    \A p \in Printers :
      (cfg_log[p].restored /\ cfg_log[p].n = 1) =>
        SameConfig(devmode[p], cfg_log[p].first[1])

\* C7 (SpecConfig): the backup entry of a printer holds the values the printer
\* had before the first apply since its last restore, however many applies
\* followed, and a restore after them returns the printer to those values.
C7_BackupKeepsOriginal ==
    \A p \in Printers :
      /\ (p \in DOMAIN original_configs /\ cfg_log[p].n >= 1 /\ ~cfg_log[p].restored) =>
           original_configs[p] = BackupEntry(cfg_log[p].first[1])
      /\ (cfg_log[p].restored /\ cfg_log[p].n >= 1) =>
           SameConfig(devmode[p], cfg_log[p].first[1])

\* C8 (Spec): a worker sets the document at queue position i to PRINTING only
\* when every document at a position before i has reached COMPLETED or ERROR.
C8_PrintingInQueueOrder ==
    [][\A w \in Workers :
         (wpc[w] = "l112" /\ wpc'[w] = "l115") =>
           \A j \in 1..(wloc[w].i - 1) :
             j <= Len(print_queue) => print_queue[j] \in reached]_vars

\* C9 (SpecCount): once cancel_calculation has been called, the loop of
\* calculate_all_pages dispatches no further document.
C9_NoDispatchAfterCancel ==
    cancel_log.late = 0

\* C10 (SpecCount): the summary calculate_all_pages returns has one result per
\* supplied document: total_files is the number of documents supplied and the
\* success, skipped and error counts add up to it.
C10_SummaryCoversAllDocuments ==
    cpc = "returned" =>
      /\ summary[1].total_files = Len(documents)
      /\ summary[1].success_count + summary[1].skipped_count
           + summary[1].error_count = summary[1].total_files

\* C11 (SpecCount): a progress callback that raises never aborts the counting:
\* calculate_all_pages is never left by an exception of the callback.
C11_CallbackNeverAborts ==
    cpc # "raised"

\* C12 (SpecCount): PageCountManager never records a SUCCESS result with a page
\* count below 1: a zero reported by the engine is not a success value.
C12_SuccessCountAtLeastOne ==
    \A k \in 1..Len(results) :
        results[k].status = SUCCESS => results[k].page_count[1] >= 1

\* The results recorded for documents that satisfy P.
ResultsWhere(P(_)) == { k \in 1..Len(results) : P(results[k].document) }

IsEncrypted(d) ==
    /\ doc_env[d].file = "ok"
    /\ doc_env[d].type \in {PDF, WORD, PPT, EXCEL}
    /\ doc_env[d].engine = "encrypted"

IsMissing(d) == doc_env[d].file = "missing"

\* C13 (SpecCount): a document whose counting fails because the file is
\* password-protected is recorded SKIPPED_ENCRYPTED, one whose file does not exist
\* is recorded SKIPPED_NO_ACCESS, and the returned summary counts both in
\* skipped_count, not in error_count.
C13_EncryptedAndMissingAreSkipped ==
    /\ \A k \in ResultsWhere(IsEncrypted) : results[k].status = SKIPPED_ENCRYPTED
    /\ \A k \in ResultsWhere(IsMissing) : results[k].status = SKIPPED_NO_ACCESS
    /\ cpc = "returned" =>
         summary[1].skipped_count >=
           Cardinality(ResultsWhere(IsEncrypted) \cup ResultsWhere(IsMissing))

\* The reference classifier: Encrypted if the engine's text contains any of the
\* six keywords, otherwise Corrupted.
ReferenceClass(K) == IF K \cap Keywords # {} THEN "Encrypted" ELSE "Corrupted"

\* The class a counter's exception stands for, and the class a result's
\* error message tells the user.
CounterClass(t, K) ==
    IF CounterError(t, K) = FileEncrypted THEN "Encrypted" ELSE "Corrupted"
MessageClass(msg) ==
    IF msg = "encrypted_or_restricted" THEN "Encrypted" ELSE "Corrupted"

EngineFailed(d) ==
    /\ doc_env[d].file = "ok"
    /\ doc_env[d].type \in {PDF, WORD, PPT, EXCEL}
    /\ doc_env[d].engine \in EngineRaises

\* C14 (SpecCount): for every document whose engine raised, the class chosen by
\* the type's counter equals the reference classifier applied to the engine's
\* text, and the result's error message shows that same class.
C14_UniformFailureClass ==
    \A k \in ResultsWhere(EngineFailed) :
        LET e == doc_env[results[k].document]
        IN /\ CounterClass(e.type, e.text) = ReferenceClass(e.text)
           /\ MessageClass(results[k].error_message) = CounterClass(e.type, e.text)

CounterTimedOut(d) ==
    /\ doc_env[d].file = "ok"
    /\ doc_env[d].type \in {PDF, WORD, PPT, EXCEL}
    /\ doc_env[d].engine = "timeout"

LibraryMissing(d) ==
    /\ doc_env[d].file = "ok"
    /\ doc_env[d].type \in {PDF, WORD, PPT, EXCEL}
    /\ doc_env[d].engine = "missing_library"

\* C15 (SpecCount): the result of a document whose counter timed out, and of one
\* whose library is not installed, carries a failure message different from the
\* one of a damaged file, and the two differ from each other.
C15_TimeoutAndMissingDependencyDistinct ==
    LET corrupted == _get_user_friendly_error(FileDamaged)
    IN /\ \A k \in ResultsWhere(CounterTimedOut) :
            results[k].error_message # corrupted
       /\ \A k \in ResultsWhere(LibraryMissing) :
            results[k].error_message # corrupted
       /\ \A k \in ResultsWhere(CounterTimedOut), j \in ResultsWhere(LibraryMissing) :
            results[k].error_message # results[j].error_message

\* The types for which a handler class exists: WordDocumentHandler,
\* PowerPointDocumentHandler, ExcelDocumentHandler, PDFDocumentHandler,
\* ImageDocumentHandler, TextDocumentHandler.
HandlerTypes == {WORD, PPT, EXCEL, PDF, IMAGE, TEXT}

\* C16 (Spec): when the batch prints a document of a type that has a handler,
\* and the file is one that handler prints successfully, the document is
\* COMPLETED: it is not failed as an unsupported type.
C16_DispatchByFileType ==
    [][\A w \in Workers :
         (wpc[w] = "l115" /\ wpc'[w] = "l102") =>
            LET d == wloc[w].document
            IN (file_type[d] \in HandlerTypes /\ file_state[d] = "ok")
                  => print_status'[d] = COMPLETED]_vars

\* The ways a lookup may spell a declared extension: either case, with or
\* without the dot.
Spellings(e) == { q \in Extensions : q.stem = e.stem }

Registers(h) ==
    h \notin Range(handlers) /\ reg_log'.op = "registered" /\ reg_log'.handler = h

\* C17 (SpecRegistry): a register_handler(h) call that registers h makes every
\* lookup of a file type or an extension h declares return h, whichever handler
\* had it before; lookups of the other types and extensions return what they
\* returned before; a warning is printed exactly when h took over a type or an
\* extension, and h is in the list of registered handlers.
C17_LastRegisteredWins ==
    [][\A h \in Handlers :
         Registers(h) =>
            LET types == get_supported_file_types(h)
                spelt == UNION { Spellings(e) : e \in get_supported_extensions(h) }
            IN /\ \A t \in types : get_handler_by_file_type(t)' = h
               /\ \A q \in spelt :
                    /\ get_handler_by_extension(q)' = h
                    /\ q.dot => get_handler_by_file_path(q)' = h
               /\ \A t \in FileType \ types :
                    get_handler_by_file_type(t)' = get_handler_by_file_type(t)
               /\ \A q \in Extensions \ spelt :
                    get_handler_by_extension(q)' = get_handler_by_extension(q)
               /\ reg_log'.warned =
                    \/ \E t \in types : get_handler_by_file_type(t) # NoHandler
                    \/ \E q \in spelt : get_handler_by_extension(q) # NoHandler
               /\ Range(handlers') = Range(handlers) \cup {h}]_vars

\* H2 was registered after H1 and took PDF and .pdf from it with a warning; TEXT
\* and .txt, declared by H1 only, are still H1's.
C17_Witness ==
    /\ handlers = <<"H1", "H2">>
    /\ reg_log = [op |-> "registered", handler |-> "H2", warned |-> TRUE]
    /\ get_handler_by_file_type(PDF) = "H2"
    /\ get_handler_by_extension(Ext(FALSE, TRUE, "pdf")) = "H2"
    /\ get_handler_by_file_path(Ext(TRUE, TRUE, "pdf")) = "H2"
    /\ get_handler_by_file_type(TEXT) = "H1"
    /\ get_handler_by_extension(Ext(TRUE, FALSE, "txt")) = "H1"

\* C18 (SpecConfig): restore_printer_config for a printer that has no backup
\* entry does not return a failure result.
C18_RestoreWithoutBackupIsNoOp ==
    (cfg_ret.op = "restore" /\ cfg_ret.target # NoPrinter /\ ~cfg_ret.had_backup)
        => cfg_ret.result

\* The defaults documented for a key that the dict lacks.
DocumentedDefault ==
    [duplex |-> FALSE, color_mode |-> Member("ColorMode", "grayscale"),
     orientation |-> Member("Orientation", "portrait"), paper_size |-> "A4"]

\* C19 (SpecSettings): from_dict(s.to_dict()) equals s in every field; a field
\* whose key the dict lacks gets its documented default (duplex off, colour
\* grayscale, orientation portrait, paper 'A4'), the fields whose keys are
\* present keep the value of s.
C19_SettingsRoundTrip ==
    ps_pc = "back" =>
       /\ DOMAIN ps_dict = SettingsKeys => ps_back = ps_value
       /\ \A k \in DOMAIN ps_dict : ps_back[k] = ps_value[k]
       /\ \A k \in DOMAIN DocumentedDefault \ DOMAIN ps_dict :
            ps_back[k] = DocumentedDefault[k]

\* A value with no field at its default went through to_dict and from_dict and
\* came back equal.
C19_Witness ==
    /\ ps_pc = "back"
    /\ DOMAIN ps_dict = SettingsKeys
    /\ ps_back = ps_value
    /\ ps_value.duplex
    /\ ps_value.color_mode.value = "color"
    /\ ps_value.orientation.value = "landscape"
    /\ ps_value.paper_size = "A3"
    /\ ps_value.duplex_mode.value = "duplexshort"
    /\ ps_value.scaling.value = "noscale"
    /\ ps_value.copies = 2

\* The FileType documented for a path, from its lower-cased extension alone;
\* ValueError for any other extension.
DocumentedType(p) ==
    LET e == IF p.dot THEN p.stem ELSE ""
    IN CASE e \in {"doc", "docx", "wps"} -> WORD
         [] e \in {"ppt", "pptx", "dps"} -> PPT
         [] e \in {"xls", "xlsx", "et"} -> EXCEL
         [] e = "pdf" -> PDF
         [] e \in {"jpg", "jpeg", "png", "bmp", "tiff", "tif", "webp"} -> IMAGE
         [] e = "txt" -> TEXT
         [] OTHER -> ValueError

\* C20 (SpecDocuments): constructing a Document gives the FileType documented
\* for its lower-cased extension, or fails with ValueError for any other
\* extension; and every Document in the document set still has the type it was
\* constructed with, whatever was done to the set or to its statuses since.
C20_FileTypeFromExtension ==
    /\ dm_new.outcome # "none" => dm_new.outcome = DocumentedType(dm_new.file_path)
    /\ \A k \in 1..Len(dm_documents) :
         dm_documents[k].file_type = DocumentedType(dm_documents[k].file_path)

\* A file named .PDF was added and has since been printed: it is PDF still;
\* the last construction, of a .gif, failed.
C20_Witness ==
    /\ \E k \in 1..Len(dm_documents) :
         /\ dm_documents[k].file_path = Ext(TRUE, TRUE, "pdf")
         /\ dm_documents[k].file_type = PDF
         /\ dm_documents[k].print_status = COMPLETED
    /\ dm_new = [file_path |-> Ext(TRUE, FALSE, "gif"), outcome |-> ValueError]

\* The documented count of a workbook without explicit page breaks:
\* ceil(r/45) * ceil(c/8) for each worksheet with content, summed, at least 1.
Ceil(a, b) == (a + b - 1) \div b

PlainSheet(sh) == sh.access = "ok" /\ sh.hbreaks = 0 /\ sh.vbreaks = 0

DocumentedSheetPages(sh) ==
    IF sh.rows = 0 THEN 0 ELSE Ceil(sh.rows, 45) * Ceil(sh.cols, 8)

DocumentedBookPages ==
    Max(1, TotalPages([k \in 1..Len(xl_book.sheets) |->
                         DocumentedSheetPages(xl_book.sheets[k])], 1))

\* C21 (SpecExcel): for a workbook whose worksheets have no explicit page breaks,
\* PageCountManager's Excel counting and the Excel handler's count_pages both
\* return the sum over the worksheets with content of ceil(r/45) * ceil(c/8),
\* and at least 1.
C21_ExcelPagesFromUsedRange ==
    (/\ xl_book.open = "ok"
     /\ \A k \in 1..Len(xl_book.sheets) : PlainSheet(xl_book.sheets[k]))
      => /\ xl_manager # NotCalled => xl_manager = Returns(DocumentedBookPages)
         /\ xl_handler # NotCalled => xl_handler = Returns(DocumentedBookPages)

TerminalStatuses == SkippedStatuses \cup {SUCCESS, ERROR}

\* The status the skip check gives a file that does not exist, is over the
\* size ceiling or cannot be opened for reading.
DocumentedSkip(f) ==
    IF f = "large" THEN SKIPPED_LARGE ELSE SKIPPED_NO_ACCESS

C23_ProgressAfterCompletion ==
    cpc \in {"l147", "raised"} => Len(results) >= ci + 1

\* C24 (SpecHosts): when an invocation that started an automation host ends,
\* the quit of that host has been issued, whichever call failed on the way:
\* the open, the statistics or print call, or the close of the document.
C24_HostQuitOnEveryPath ==
    (host_pc = "ended" /\ host_app) => host_quit

\* The strategy documented as first for an extension: live automation for .ppt,
\* the library reader for .pptx and for any other extension.
DocumentedFirst(ext) == IF ext = ".ppt" THEN "com" ELSE "pptx"

SummaryCounts(sm) ==
    [k \in DOMAIN sm \ {"skipped_files", "error_files"} |-> sm[k]]

\* The pages and the number of the SUCCESS results whose document has a type in T.
SuccessPages(T) ==
    TotalPages([k \in 1..Len(results) |->
                  IF results[k].status = SUCCESS
                     /\ doc_env[results[k].document].type \in T
                  THEN PagesOrZero(results[k]) ELSE 0], 1)

SuccessFiles(T) ==
    Cardinality({ k \in 1..Len(results) :
                    /\ results[k].status = SUCCESS
                    /\ doc_env[results[k].document].type \in T })

IsSkipped(r) == r.status \in SkippedStatuses
IsError(r) == r.status \notin SkippedStatuses \cup {SUCCESS}

\* C26 (SpecCount): in the summary returned, total_pages is the sum of page_count
\* over the SUCCESS results and the sum of the four per-type page subtotals,
\* success_count is the sum of the four per-type file counts, each subtotal is
\* that of the SUCCESS results of its type, skipped_files and error_files hold
\* exactly the SKIPPED_* results and the other non-success results, with
\* skipped_count and error_count their lengths, and the counts are the same for
\* every order of the results.
C26_SummaryFromSuccessOnly ==
    cpc = "returned" =>
       LET sm == summary[1]
       IN /\ sm.total_pages = SuccessPages(FileType)
          /\ sm.total_pages =
               sm.word_pages + sm.ppt_pages + sm.excel_pages + sm.pdf_pages
          /\ sm.success_count = SuccessFiles(FileType)
          /\ sm.success_count =
               sm.word_files + sm.ppt_files + sm.excel_files + sm.pdf_files
          /\ sm.word_pages = SuccessPages({WORD}) /\ sm.word_files = SuccessFiles({WORD})
          /\ sm.ppt_pages = SuccessPages({PPT}) /\ sm.ppt_files = SuccessFiles({PPT})
          /\ sm.excel_pages = SuccessPages({EXCEL})
          /\ sm.excel_files = SuccessFiles({EXCEL})
          /\ sm.pdf_pages = SuccessPages({PDF}) /\ sm.pdf_files = SuccessFiles({PDF})
          /\ sm.skipped_files = SelectSeq(results, IsSkipped)
          /\ sm.error_files = SelectSeq(results, IsError)
          /\ sm.skipped_count = Len(sm.skipped_files)
          /\ sm.error_count = Len(sm.error_files)
          /\ \A p \in Permutations(1..Len(results)) :
               SummaryCounts(_generate_summary([k \in 1..Len(results) |->
                                                  results[p[k]]]))
                 = SummaryCounts(sm)

\* A summary over a counted Word file, a skipped file and a failed one.
C26_Witness ==
    /\ cpc = "returned"
    /\ summary[1].total_files = 3
    /\ summary[1].word_files = 1 /\ summary[1].word_pages = 2
    /\ summary[1].total_pages = 2
    /\ summary[1].skipped_count = 1
    /\ summary[1].error_count = 1

\* The lookups in a registry snapshot.
TypeLookup(reg, t) ==
    IF t \in DOMAIN reg.file_type_handlers THEN reg.file_type_handlers[t]
    ELSE NoHandler

ExtensionLookup(reg, e) ==
    IF e \in DOMAIN reg.extension_handlers THEN reg.extension_handlers[e]
    ELSE NoHandler

\* The step unregister_handler(h) made right after the register_handler(h) that
\* registered h.
UndoesRegistration(h) ==
    /\ reg_log = [op |-> "registered", handler |-> h, warned |-> reg_log.warned]
    /\ reg_log'.op = "unregistered"
    /\ reg_log'.handler = h

\* C27 (SpecRegistry): register_handler(h) of an unregistered h followed by
\* unregister_handler(h) leaves every lookup by file type and by extension, and
\* the list of registered handlers, as they were before the registration, also
\* when another registered handler had claimed some of h's types or extensions.
C27_UnregisterInvertsRegister ==
    [][\A h \in Handlers :
         UndoesRegistration(h) =>
            /\ handlers' = reg_before.handlers
            /\ \A t \in FileType :
                 get_handler_by_file_type(t)' = TypeLookup(reg_before, t)
            /\ \A q \in Extensions :
                 get_handler_by_extension(q)'
                   = ExtensionLookup(reg_before, lower([q EXCEPT !.dot = TRUE]))]_vars

\* C28 (Spec): when a batch execution ends, the documents it processed are the
\* documents that were in the queue when it started: none of those was skipped,
\* none added afterwards was processed, none was processed twice, and the total
\* it reported is the number it processed.
C28_BatchDocumentsFixedAtStart ==
    [][\A w \in Workers :
         Finishes(w) =>
            /\ wloc[w].seen = wloc[w].batch_docs
            /\ wloc[w].i = Cardinality(wloc[w].batch_docs)
            /\ wloc[w].total_docs = wloc[w].i]_vars

\* C29 (SpecLive): whenever a batch is in flight (submitted and waiting, or
\* running on a worker) a state follows in which none is: every submitted batch
\* is taken and ends; the step that ends an execution leaves is_printing false,
\* and is_printing is false whenever no batch is in flight, so that the next
\* start_batch_print on a non-empty queue with settings is accepted.
C29_BatchFinishesAndResetsFlag ==
    /\ [][\A w \in Workers : Finishes(w) => ~is_printing']_vars
    /\ [](~BatchActive => ~is_printing)
    /\ [](~BatchActive /\ print_queue # <<>> /\ current_settings # NoSettings
            => StartResult = "submitted")
    /\ BatchActive ~> ~BatchActive

\* A start_batch_print made when an earlier batch had processed documents and
\* ended was accepted, and its batch is waiting for a worker.
C29_Witness ==
    /\ reached # {}
    /\ start_log = [result |-> "submitted", active |-> FALSE]
    /\ pending = 1
    /\ \A w \in Workers : ~Running(w)
    /\ ~is_printing

\* C30 (Spec): at most one document of the print queue is PRINTING; a document
\* of the queue is PRINTING only while a batch execution is running and
\* is_printing is true; the four per-status counts of get_print_queue_status
\* add up to its total.
C30_OnePrintingWhileRunning ==
    LET st == get_print_queue_status
    IN /\ st.status_count[PRINTING] <= 1
       /\ st.status_count[PRINTING] > 0 =>
            (is_printing /\ \E w \in Workers : Running(w))
       /\ st.status_count[PENDING] + st.status_count[PRINTING]
            + st.status_count[COMPLETED] + st.status_count[ERROR] = st.total

====
